---------------------------- MODULE Spec2Model ----------------------------
(***************************************************************************)
(* Model of steamscordbot (src/steamscordbot/__main__.py): a Discord bot   *)
(* answering the commands profile, achievements and friends with data of   *)
(* the Steam Web API.                                                      *)
(*                                                                         *)
(* Specifications:                                                         *)
(*   SpecFetch   the per-item fetcher, a pure function of the two remote   *)
(*               responses it reads                                        *)
(*   SpecFriendsList  the ordering and truncation of friends_list          *)
(*   SpecRank    the four rankings (rarest, latest, owned, recent)         *)
(*   Spec        one invocation of profile, achievements or friends, cut   *)
(*               at the points where the handler awaits                    *)
(*   SpecChunks  friends with friend lists of more than one slice          *)
(*   SpecLoop    several invocations on the event loop: which thread each  *)
(*               remote call runs on, and the ThreadPools                  *)
(*   SpecPool    SpecLoop with one invocation in progress                  *)
(*   SpecTally   the jobs of friends_owned and friends_recent and the fold *)
(*               of their results into the tallies                         *)
(***************************************************************************)
EXTENDS Integers, Sequences, FiniteSets, TLC

VARIABLES
    \* application of a pure function
    fn,     \* name of the function applied ("" before the application)
    arg,    \* its input
    ret,    \* its outcome: [raised |-> BOOLEAN, value |-> ...]
    \* one command invocation
    pc,     \* "idle", the remote call or executor job awaited, or "done"
    args,   \* the arguments the command was invoked with
    loc,    \* the local variables of the handler
    sent,   \* the messages sent with ctx.send, in order
    calls,  \* number of Steam API calls issued, per method
    raised, \* the handler ended with an unhandled exception
    pool,   \* the ThreadPool of the fan-out in progress
    \* several invocations on the event loop
    tasks,   \* per invocation: its command, the call it is at, its state
    running, \* the invocation that holds the thread of the event loop, or 0
    pools    \* per invocation and fan-out: the ThreadPool it created

fnVars == <<fn, arg, ret>>
cmdVars == <<pc, args, loc, sent, calls, raised, pool>>
loopVars == <<tasks, running, pools>>
vars == <<fn, arg, ret, pc, args, loc, sent, calls, raised, pool,
          tasks, running, pools>>

-----------------------------------------------------------------------------
(* Bounds *)

\* longest achievement list of a remote response
MaxAch == 2

-----------------------------------------------------------------------------
(* Generic helpers *)

SeqsUpTo(S, n) == UNION {[1..k -> S] : k \in 0..n}

Range(s) == {s[i] : i \in 1..Len(s)}

SetMax(S) == CHOOSE x \in S : \A y \in S : y <= x

Min2(a, b) == IF a <= b THEN a ELSE b

\* outcome of a Python call: a returned value or a propagated exception
Return(v) == [raised |-> FALSE, value |-> v]
Raise(e) == [raised |-> TRUE, value |-> e]

NoRet == Return(<<>>)

ACHIEVEMENT_RAREST == "rarest"
ACHIEVEMENT_LATEST == "latest"

\* Python None, for the str arguments modelled as tuples of characters and
\* for those modelled as words
None == <<"None">>
NoWord == "None"

Methods ==
    {"ISteamUser.ResolveVanityURL", "ISteamUser.GetPlayerSummaries",
     "ISteamUser.GetFriendList", "IPlayerService.GetOwnedGames",
     "IPlayerService.GetRecentlyPlayedGames",
     "ISteamUserStats.GetPlayerAchievements",
     "ISteamUserStats.GetGlobalAchievementPercentagesForApp",
     "ISteamUserStats.GetSchemaForGame"}

NoArgs == [cmd |-> "", vanity_or_steamid |-> None, criteria |-> NoWord,
           subcommand |-> NoWord, max_count_str |-> None]

\* the local variables of the handlers; precheck is the answer to the call
\* of line 271 (status 0 before the call) and precheck_appid the appid it
\* was made for; slices lists the steamids
\* parameters of the calls of line 511; fanout keeps the last fan-out that
\* returned: its kind, its number of jobs, what pool.map gave, the job that
\* finished first and the answers each job received
NoLoc == [steamid |-> None, max_count |-> 0, player |-> <<>>,
          games |-> <<>>, played_appids |-> <<>>,
          precheck |-> [status |-> 0, text |-> ""], precheck_appid |-> 0,
          global_achievements_percentages |-> <<>>,
          sorted_global_achievements |-> <<>>,
          friends_steamids_list |-> <<>>, friendslist |-> <<>>, i |-> 0,
          slices |-> <<>>,
          fanout |-> [kind |-> "", n |-> 0, result |-> Return(<<>>),
                      first |-> 0, seen |-> <<>>]]

\* a ThreadPool: the jobs, their slots, and the job that finished first
NoPool == [kind |-> "", items |-> <<>>, slots |-> <<>>, first |-> 0]

\* no command is being handled
CmdIdle ==
    /\ pc = "idle"
    /\ args = NoArgs
    /\ loc = NoLoc
    /\ sent = <<>>
    /\ calls = [m \in Methods |-> 0]
    /\ raised = FALSE
    /\ pool = NoPool

\* the invocations the event loop handles, SpecLoop
MaxInvocations == 2
Handlers == 1..MaxInvocations

\* the fan-outs: get_player_achievements_with_percentages,
\* get_achievements_details, get_games_owned_by_players and
\* get_games_recently_played_by_players
FanOuts == {"achievements", "details", "owned", "recent"}

\* an invocation: state is "idle" before the command is invoked, "calling"
\* while the handler awaits a call made off the thread of the event loop,
\* "blocking" while it makes a call on that thread, "ready" when the call
\* awaited has returned and the handler waits to be resumed, or "done"
NoTask == [cmd |-> "", at |-> "", state |-> "idle"]

\* a ThreadPool: state is "none" before ThreadPool(10), "mapping" during
\* pool.map / pool.starmap, "idle" once that has returned and the worker
\* threads are still there, "terminated" once they are gone; of its n
\* jobs, started have been taken by a worker and finished have run
NoThreadPool == [state |-> "none", n |-> 0, started |-> 0, finished |-> 0]

\* nothing happens on the event loop
LoopIdle ==
    /\ tasks = [h \in Handlers |-> NoTask]
    /\ running = 0
    /\ pools = [h \in Handlers |-> [k \in FanOuts |-> NoThreadPool]]

\* no pure function is being applied
FnIdle ==
    /\ fn = ""
    /\ arg = <<>>
    /\ ret = NoRet

-----------------------------------------------------------------------------
(* Remote responses of ISteamUserStats *)

ApiNames == {"ACH_A", "ACH_B"}
Appids == {1, 2}

\* entries of playerstats.achievements (GetPlayerAchievements)
PlayerAchievementEntries ==
    [apiname : ApiNames, achieved : {0, 1}, unlocktime : {1, 2}]

\* entries of achievementpercentages.achievements
\* (GetGlobalAchievementPercentagesForApp); percent scaled to an integer
GlobalAchievementEntries == [name : ApiNames, percent : {1, 2}]

\* status: HTTP status of the call (an HTTPError is raised unless 200);
\* has: the optional "achievements" section is present
ResponsesOver(entries, n) ==
    [status : {400, 403}, has : {FALSE}, achievements : {<<>>}]
    \cup [status : {200}, has : {FALSE}, achievements : {<<>>}]
    \cup [status : {200}, has : {TRUE}, achievements : SeqsUpTo(entries, n)]

-----------------------------------------------------------------------------
(* get_player_achievements_with_percentages_from_appid, lines 126-154 *)

\* the dict comprehension of lines 138-141: apiname -> unlocktime of the
\* achieved entries, the last entry winning for a repeated key
player_obtained_achievements(achs) ==
    LET achieved == {i \in 1..Len(achs) : achs[i].achieved = 1}
        names == {achs[i].apiname : i \in achieved}
    IN  [n \in names |->
            achs[SetMax({i \in achieved : achs[i].apiname = n})].unlocktime]

\* a variant forgetting the achieved == 1 filter of line 141
player_obtained_achievements_nofilter(achs) ==
    LET names == {achs[i].apiname : i \in 1..Len(achs)}
    IN  [n \in names |->
            achs[SetMax({i \in 1..Len(achs) : achs[i].apiname = n})].unlocktime]

\* the list comprehension of lines 148-154
merge_percentages(appid, obtained, globals) ==
    LET kept == SelectSeq(globals, LAMBDA a : a.name \in DOMAIN obtained)
    IN  [i \in 1..Len(kept) |->
            [appid |-> appid, apiname |-> kept[i].name,
             percent |-> kept[i].percent,
             unlocktime |-> obtained[kept[i].name]]]

\* a variant emitting every globally tracked name
get_player_achievements_with_percentages_from_appid_all(appid, presp, gresp) ==
    IF presp.status # 200 THEN Return(<<>>)
    ELSE IF ~presp.has THEN Return(<<>>)
    ELSE IF gresp.status # 200 THEN Raise("HTTPError")
    ELSE IF ~gresp.has THEN Return(<<>>)
    ELSE Return(merge_percentages(
            appid, player_obtained_achievements_nofilter(presp.achievements),
            gresp.achievements))

\* a variant whose first call sits outside the try block
get_player_achievements_with_percentages_from_appid_notry(appid, presp, gresp) ==
    IF presp.status # 200 THEN Raise("HTTPError")
    ELSE IF ~presp.has THEN Return(<<>>)
    ELSE IF gresp.status # 200 THEN Raise("HTTPError")
    ELSE IF ~gresp.has THEN Return(<<>>)
    ELSE Return(merge_percentages(
            appid, player_obtained_achievements(presp.achievements),
            gresp.achievements))

\* presp, gresp: what the two remote calls answer
get_player_achievements_with_percentages_from_appid(appid, presp, gresp) ==
    \* lines 129-135: only the first call sits in the try block
    IF presp.status # 200 THEN Return(<<>>)
    \* lines 136-137
    ELSE IF ~presp.has THEN Return(<<>>)
    \* lines 143-144: an HTTPError of the second call propagates
    ELSE IF gresp.status # 200 THEN Raise("HTTPError")
    \* lines 145-146
    ELSE IF ~gresp.has THEN Return(<<>>)
    ELSE Return(merge_percentages(
            appid, player_obtained_achievements(presp.achievements),
            gresp.achievements))

-----------------------------------------------------------------------------
(* SpecFetch: the per-item fetcher applied to every pair of responses *)

FetchArgs ==
    [appid : Appids,
     presp : ResponsesOver(PlayerAchievementEntries, MaxAch),
     gresp : ResponsesOver(GlobalAchievementEntries, MaxAch)]

InitFetch ==
    /\ fn = ""
    /\ arg \in FetchArgs
    /\ ret = NoRet
    /\ CmdIdle
    /\ LoopIdle

CallFetch ==
    /\ fn = ""
    /\ fn' = "get_player_achievements_with_percentages_from_appid"
    /\ ret' = get_player_achievements_with_percentages_from_appid(
                arg.appid, arg.presp, arg.gresp)
    /\ UNCHANGED <<arg, cmdVars, loopVars>>

NextFetch == CallFetch

SpecFetch == InitFetch /\ [][NextFetch]_vars

Fetched == fn = "get_player_achievements_with_percentages_from_appid"

\* C3: the per-item fetcher never raises, whichever remote call fails
C3_NeverRaises == Fetched => ~ret.raised

\* names the player has unlocked / names of the global table
unlocked_names(presp) ==
    {presp.achievements[i].apiname :
        i \in {j \in 1..Len(presp.achievements) :
                presp.achievements[j].achieved = 1}}
globally_tracked_names(gresp) ==
    {gresp.achievements[i].name : i \in 1..Len(gresp.achievements)}

\* C4: when both calls succeed the emitted names are exactly the unlocked
\* names that the global table tracks; each record carries an unlock time
\* of its name from the player response and a percent of its name from the
\* global table
C4_Intersection ==
    (Fetched /\ arg.presp.status = 200 /\ arg.gresp.status = 200) =>
        /\ ~ret.raised
        /\ {ret.value[i].apiname : i \in 1..Len(ret.value)}
            = unlocked_names(arg.presp) \cap globally_tracked_names(arg.gresp)
        /\ \A i \in 1..Len(ret.value) :
            /\ ret.value[i].appid = arg.appid
            /\ \E j \in 1..Len(arg.presp.achievements) :
                /\ arg.presp.achievements[j].apiname = ret.value[i].apiname
                /\ arg.presp.achievements[j].achieved = 1
                /\ arg.presp.achievements[j].unlocktime = ret.value[i].unlocktime
            /\ \E j \in 1..Len(arg.gresp.achievements) :
                /\ arg.gresp.achievements[j].name = ret.value[i].apiname
                /\ arg.gresp.achievements[j].percent = ret.value[i].percent

\* an unlocked name missing from the global table is dropped, another kept
C4_Witness ==
    /\ Fetched /\ arg.presp.status = 200 /\ arg.gresp.status = 200
    /\ Len(ret.value) = 1
    /\ unlocked_names(arg.presp) = ApiNames
    /\ globally_tracked_names(arg.gresp) = {"ACH_B"}

-----------------------------------------------------------------------------
(* Python built-ins *)

\* comparison of tuples of integers; a str is the tuple of its code points
RECURSIVE TupleLess(_, _)
TupleLess(a, b) ==
    IF b = <<>> THEN FALSE
    ELSE IF a = <<>> THEN TRUE
    ELSE IF Head(a) < Head(b) THEN TRUE
    ELSE IF Head(a) > Head(b) THEN FALSE
    ELSE TupleLess(Tail(a), Tail(b))

\* s[:n]
HeadSlice(s, n) ==
    IF n >= 0 THEN SubSeq(s, 1, Min2(n, Len(s)))
    ELSE SubSeq(s, 1, Len(s) + n)

\* a variant sorting ascending and reversing the result for reverse=True
sorted_reversed(s, keys, reverse) ==
    LET Insert(acc, x) ==
            LET later == {p \in 1..Len(acc) : TupleLess(keys[x], keys[acc[p]])}
                pos == IF later = {} THEN Len(acc) + 1
                       ELSE CHOOSE p \in later : \A q \in later : p <= q
            IN  SubSeq(acc, 1, pos - 1) \o <<x>> \o SubSeq(acc, pos, Len(acc))
        F[n \in 0..Len(s)] == IF n = 0 THEN <<>> ELSE Insert(F[n - 1], n)
        asc == [i \in 1..Len(s) |-> s[F[Len(s)][i]]]
    IN  IF reverse THEN [i \in 1..Len(s) |-> asc[Len(s) + 1 - i]] ELSE asc

\* sorted(s, key=..., reverse=...) and list.sort, keys[i] being the key of
\* s[i]: a stable sort, and with reverse=True elements of equal key still
\* keep their original order
sorted(s, keys, reverse) ==
    LET \* s[x] sorts strictly before s[y] under the keys k
        Before(k, x, y) == IF reverse THEN TupleLess(k[y], k[x])
                           ELSE TupleLess(k[x], k[y])
        \* the place of s[x] in the result: behind the elements that sort
        \* strictly before it and behind the earlier elements of equal key
        Place(k) == [x \in 1..Len(s) |->
                        1 + Cardinality({y \in 1..Len(s) :
                                Before(k, y, x) \/ (y < x /\ ~Before(k, x, y))})]
        Arrange(place) ==
            [i \in 1..Len(s) |-> s[CHOOSE x \in 1..Len(s) : place[x] = i]]
    \* (\o <<>> leaves a sequence as it is and has it computed once)
    IN  Arrange(Place(keys \o <<>>) \o <<>>)

-----------------------------------------------------------------------------
(* friends_list, lines 347-364 *)

\* most friends of a friend list
MaxFriends == 2

\* personaname as code points: "a", "b", "ab"
PersonaNames == {<<97>>, <<98>>, <<97, 98>>}

\* player summaries; gameextrainfo and lastlogoff are optional fields
\* (has_lastlogoff tells whether lastlogoff is present)
FriendSummaries ==
    {f \in [personaname : PersonaNames, personastate : {0, 1},
            gameextrainfo : BOOLEAN, has_lastlogoff : BOOLEAN,
            lastlogoff : {0, 1, 2}] :
        f.has_lastlogoff <=> f.lastlogoff # 0}

BoolKey(b) == IF b THEN 1 ELSE 0

\* a variant forgetting the negation of lastlogoff
friend_sort_key_oldest_first(friend) ==
    <<BoolKey(~friend.gameextrainfo),
      BoolKey(friend.personastate = 0),
      IF friend.has_lastlogoff THEN friend.lastlogoff ELSE 0>>
    \o friend.personaname

\* the key of lines 352-361
friend_sort_key(friend) ==
    <<BoolKey(~friend.gameextrainfo),
      BoolKey(friend.personastate = 0),
      IF friend.has_lastlogoff THEN -friend.lastlogoff ELSE 0>>
    \o friend.personaname

\* the friends rendered, in order (lines 351-364)
friends_list(max_count, friendslist) ==
    HeadSlice(sorted(friendslist,
                     [i \in 1..Len(friendslist) |-> friend_sort_key(friendslist[i])],
                     FALSE), max_count)

MaxCounts == {-1, 1, 10}

InitFriendsList ==
    /\ fn = ""
    /\ arg \in [max_count : MaxCounts,
                friendslist : SeqsUpTo(FriendSummaries, MaxFriends)]
    /\ ret = NoRet
    /\ CmdIdle
    /\ LoopIdle

CallFriendsList ==
    /\ fn = ""
    /\ fn' = "friends_list"
    /\ ret' = Return(friends_list(arg.max_count, arg.friendslist))
    /\ UNCHANGED <<arg, cmdVars, loopVars>>

NextFriendsList == CallFriendsList

SpecFriendsList == InitFriendsList /\ [][NextFriendsList]_vars

\* 0 in an activity, 1 online, 2 offline
PresenceGroup(friend) ==
    IF friend.gameextrainfo THEN 0
    ELSE IF friend.personastate # 0 THEN 1 ELSE 2

\* C5: in-activity friends precede online friends, which precede offline
\* friends; offline friends appear by non-increasing lastlogoff
C5_PresenceOrder ==
    fn = "friends_list" =>
        \A i, j \in 1..Len(ret.value) : i < j =>
            /\ PresenceGroup(ret.value[i]) <= PresenceGroup(ret.value[j])
            /\ (PresenceGroup(ret.value[i]) = 2 /\ PresenceGroup(ret.value[j]) = 2)
                => ret.value[i].lastlogoff >= ret.value[j].lastlogoff

\* two offline friends given oldest first are rendered latest first
C5_Witness ==
    /\ fn = "friends_list"
    /\ Len(arg.friendslist) = 2 /\ Len(ret.value) = 2
    /\ PresenceGroup(arg.friendslist[1]) = 2
    /\ PresenceGroup(arg.friendslist[2]) = 2
    /\ arg.friendslist[1].lastlogoff < arg.friendslist[2].lastlogoff
    /\ ret.value[1] = arg.friendslist[2]

\* C6: within the in-activity group and within the online group the
\* friends appear by ascending personaname
C6_NameOrder ==
    fn = "friends_list" =>
        \A i, j \in 1..Len(ret.value) :
            (/\ i < j
             /\ PresenceGroup(ret.value[i]) = PresenceGroup(ret.value[j])
             /\ PresenceGroup(ret.value[i]) \in {0, 1})
            => ~TupleLess(ret.value[j].personaname, ret.value[i].personaname)

-----------------------------------------------------------------------------
(* The four rankings: achievements lines 285-292, friends_owned lines     *)
(* 393-408, friends_recent lines 450-466                                   *)

\* most records of a ranked achievement list
MaxRecords == 3
\* most players of a tally
MaxPlayers == 2

AchievementRecords ==
    [appid : {1}, apiname : ApiNames, percent : {1, 2}, unlocktime : {1, 2}]

percent_key(x) == <<x.percent>>
unlocktime_key(x) == <<x.unlocktime>>

\* lines 285-292
rank_achievements(criteria, global_achievements_percentages) ==
    LET records == global_achievements_percentages
    IN  IF criteria = ACHIEVEMENT_RAREST
        THEN sorted(records,
                    [i \in 1..Len(records) |-> percent_key(records[i])], FALSE)
        ELSE sorted(records,
                    [i \in 1..Len(records) |-> unlocktime_key(records[i])], TRUE)

\* games of GetOwnedGames / GetRecentlyPlayedGames
TallyAppids == {1, 2, 3}
Games ==
    {g \in [appid : TallyAppids, playtime_2weeks : {1, 2}] :
        g.playtime_2weeks = 2 => g.appid = 1}

\* the list of a player: up to two games, an appid once
GameLists ==
    {l \in SeqsUpTo(Games, 2) :
        \A i, j \in 1..Len(l) : l[i].appid = l[j].appid => i = j}

\* steamid_games_list: one (steamid, games) pair per player, in playerslist order
SteamidGamesLists(n) ==
    {[i \in 1..Len(g) |-> [steamid |-> i, games |-> g[i]]] :
        g \in SeqsUpTo(GameLists, n)}

\* the (steamid, game) pairs in the order the nested loops visit them
RECURSIVE visit_order(_, _)
visit_order(steamid_games_list, n) ==
    IF n = 0 THEN <<>>
    ELSE visit_order(steamid_games_list, n - 1)
         \o [i \in 1..Len(steamid_games_list[n].games) |->
                [steamid |-> steamid_games_list[n].steamid,
                 game |-> steamid_games_list[n].games[i]]]

\* the keys of the dict, in insertion order
RECURSIVE insertion_order(_)
insertion_order(visits) ==
    IF visits = <<>> THEN <<>>
    ELSE LET init == insertion_order(SubSeq(visits, 1, Len(visits) - 1))
             appid == visits[Len(visits)].game.appid
         IN  IF \E i \in 1..Len(init) : init[i] = appid THEN init
             ELSE Append(init, appid)

\* lines 393-407: game_ownercount_list before the sort
game_ownercount_list(steamid_games_list) ==
    LET visits == visit_order(steamid_games_list, Len(steamid_games_list))
        keys == insertion_order(visits)
        of(appid) == SelectSeq(visits, LAMBDA v : v.game.appid = appid)
    IN  [k \in 1..Len(keys) |->
            [game |-> of(keys[k])[1].game,
             count |-> Len(of(keys[k])),
             steamids |-> [i \in 1..Len(of(keys[k])) |-> of(keys[k])[i].steamid]]]

RECURSIVE SumSeq(_)
SumSeq(s) == IF s = <<>> THEN 0 ELSE Head(s) + SumSeq(Tail(s))

\* a variant keeping the playtime of the first player of each game
game_playtime_list_first(steamid_games_list) ==
    LET visits == visit_order(steamid_games_list, Len(steamid_games_list))
        keys == insertion_order(visits)
        of(appid) == SelectSeq(visits, LAMBDA v : v.game.appid = appid)
    IN  [k \in 1..Len(keys) |->
            [game |-> of(keys[k])[1].game,
             playtime |-> of(keys[k])[1].game.playtime_2weeks,
             count |-> Len(of(keys[k])),
             steamids |-> [i \in 1..Len(of(keys[k])) |-> of(keys[k])[i].steamid]]]

\* lines 450-465: game_playtime_list before the sort
game_playtime_list(steamid_games_list) ==
    LET visits == visit_order(steamid_games_list, Len(steamid_games_list))
        keys == insertion_order(visits)
        of(appid) == SelectSeq(visits, LAMBDA v : v.game.appid = appid)
    IN  [k \in 1..Len(keys) |->
            [game |-> of(keys[k])[1].game,
             playtime |-> SumSeq([i \in 1..Len(of(keys[k])) |->
                                    of(keys[k])[i].game.playtime_2weeks]),
             count |-> Len(of(keys[k])),
             steamids |-> [i \in 1..Len(of(keys[k])) |-> of(keys[k])[i].steamid]]]

count_key(e) == <<e.count>>
playtime_key(e) == <<e.playtime>>

\* line 408
rank_owned(steamid_games_list) ==
    LET list == game_ownercount_list(steamid_games_list)
    IN  sorted(list, [i \in 1..Len(list) |-> count_key(list[i])], TRUE)

\* line 466
rank_recent(steamid_games_list) ==
    LET list == game_playtime_list(steamid_games_list)
    IN  sorted(list, [i \in 1..Len(list) |-> playtime_key(list[i])], TRUE)

InitRank ==
    /\ fn = ""
    /\ arg \in [records : SeqsUpTo(AchievementRecords, MaxRecords),
                steamid_games_list : {<<>>}]
               \cup [records : {<<>>},
                     steamid_games_list : SteamidGamesLists(MaxPlayers)]
    /\ ret = NoRet
    /\ CmdIdle
    /\ LoopIdle

RankRarest ==
    /\ fn = ""
    /\ fn' = "rarest"
    /\ ret' = Return(rank_achievements("rarest", arg.records))
    /\ UNCHANGED <<arg, cmdVars, loopVars>>

RankLatest ==
    /\ fn = ""
    /\ fn' = "latest"
    /\ ret' = Return(rank_achievements("latest", arg.records))
    /\ UNCHANGED <<arg, cmdVars, loopVars>>

RankOwned ==
    /\ fn = ""
    /\ fn' = "owned"
    /\ ret' = Return(rank_owned(arg.steamid_games_list))
    /\ UNCHANGED <<arg, cmdVars, loopVars>>

RankRecent ==
    /\ fn = ""
    /\ fn' = "recent"
    /\ ret' = Return(rank_recent(arg.steamid_games_list))
    /\ UNCHANGED <<arg, cmdVars, loopVars>>

NextRank == RankRarest \/ RankLatest \/ RankOwned \/ RankRecent

SpecRank == InitRank /\ [][NextRank]_vars

Bijections(n) ==
    {p \in [1..n -> 1..n] : \A i, j \in 1..n : p[i] = p[j] => i = j}

\* out is in rearranged so that the keys never increase (descending) or
\* never decrease, and elements of equal key keep their order of in
IsStableRanking(in, out, key(_), descending) ==
    /\ Len(out) = Len(in)
    /\ \E p \in Bijections(Len(in)) :
        /\ \A k \in 1..Len(in) : out[k] = in[p[k]]
        /\ \A k, l \in 1..Len(in) : k < l =>
            /\ IF descending THEN key(out[k]) >= key(out[l])
               ELSE key(out[k]) <= key(out[l])
            /\ key(out[k]) = key(out[l]) => p[k] < p[l]

percent_of(x) == x.percent
unlocktime_of(x) == x.unlocktime
count_of(e) == e.count
playtime_of(e) == e.playtime

\* C10: every ranking is a stable sort of its input: rarest by
\* non-decreasing percent, latest by non-increasing unlocktime, owned by
\* non-increasing owner count, recent by non-increasing summed playtime
C10_StableRankings ==
    /\ fn = "rarest" =>
        IsStableRanking(arg.records, ret.value, percent_of, FALSE)
    /\ fn = "latest" =>
        IsStableRanking(arg.records, ret.value, unlocktime_of, TRUE)
    /\ fn = "owned" =>
        IsStableRanking(game_ownercount_list(arg.steamid_games_list),
                        ret.value, count_of, TRUE)
    /\ fn = "recent" =>
        IsStableRanking(game_playtime_list(arg.steamid_games_list),
                        ret.value, playtime_of, TRUE)

\* a descending ranking that moves a record and keeps a tie in input order
C10_Witness ==
    /\ fn = "latest"
    /\ Len(arg.records) = 3
    /\ arg.records[1].unlocktime = 1
    /\ arg.records[2].unlocktime = 2
    /\ arg.records[3].unlocktime = 1
    /\ arg.records[1] # arg.records[3]
    /\ ret.value = <<arg.records[2], arg.records[1], arg.records[3]>>

-----------------------------------------------------------------------------
(* One command invocation: str arguments, frames, remote responses *)

\* most games of the library of the player
MaxLibrary == 2

Digits == {"0", "1", "2", "3", "4", "5", "6", "7", "8", "9"}

DigitValue(c) ==
    CASE c = "0" -> 0 [] c = "1" -> 1 [] c = "2" -> 2 [] c = "3" -> 3
      [] c = "4" -> 4 [] c = "5" -> 5 [] c = "6" -> 6 [] c = "7" -> 7
      [] c = "8" -> 8 [] c = "9" -> 9

\* PROFILE_RX.match(s) is not None, line 14: ^\d+$, where $ also matches
\* before a newline that ends the string
PROFILE_RX_match(s) ==
    LET body == IF Len(s) >= 1 /\ s[Len(s)] = "\n"
                THEN SubSeq(s, 1, Len(s) - 1) ELSE s
    IN  /\ s # None
        /\ Len(body) >= 1
        /\ \A i \in 1..Len(body) : body[i] \in Digits

RECURSIVE DecimalValue(_)
DecimalValue(s) ==
    IF s = <<>> THEN 0
    ELSE 10 * DecimalValue(SubSeq(s, 1, Len(s) - 1)) + DigitValue(s[Len(s)])

\* int(s): a sign and decimal digits, ValueError otherwise
int(s) ==
    LET signed == Len(s) >= 1 /\ s[1] \in {"-", "+"}
        body == IF signed THEN Tail(s) ELSE s
    IN  IF Len(body) >= 1 /\ \A i \in 1..Len(body) : body[i] \in Digits
        THEN Return(IF signed /\ s[1] = "-" THEN 0 - DecimalValue(body)
                    ELSE DecimalValue(body))
        ELSE Raise("ValueError")

ACHIEVEMENT_CRITERIA == <<ACHIEVEMENT_RAREST, ACHIEVEMENT_LATEST>>
FRIENDS_LIST == "list"
FRIENDS_OWNED == "owned"
FRIENDS_RECENT == "recent"
FRIENDS_SUBCOMMANDS == <<"list", "owned", "recent">>
steamapi_sclices_size == 50

\* the arguments a user may give
IdentityArgs == {None, <<"7", "6">>, <<"b", "o", "b">>, <<"7", "\n">>}
CriteriaArgs == {NoWord, "rarest", "latest", "common"}
SubcommandArgs == {NoWord, "list", "owned", "recent", "played"}
MaxCountArgs == {<<"1", "0">>, <<"-", "1">>, <<"1">>, <<"x">>}

\* the state of the handler, as a value
Cur == [pc |-> pc, loc |-> loc, sent |-> sent, calls |-> calls,
        raised |-> raised, pool |-> pool]

Become(f) ==
    /\ pc' = f.pc
    /\ loc' = f.loc
    /\ sent' = f.sent
    /\ calls' = f.calls
    /\ raised' = f.raised
    /\ pool' = f.pool

\* await ctx.send(...)
send(f, text, a) == [f EXCEPT !.sent = Append(@, [text |-> text, args |-> a])]
\* a Steam API call is issued
call(f, method) == [f EXCEPT !.calls[method] = @ + 1]
\* the handler awaits
await(f, p) == [f EXCEPT !.pc = p]
\* the handler returns
return(f) == [f EXCEPT !.pc = "done"]
\* an exception leaves the handler
throw(f) == [f EXCEPT !.pc = "done", !.raised = TRUE]

\* ThreadPool(10) and the job list of pool.map / pool.starmap
start_pool(f, kind, items) ==
    [f EXCEPT !.pc = "run_in_executor",
              !.pool = [kind |-> kind, items |-> items,
                        slots |-> [i \in 1..Len(items) |->
                                    [done |-> FALSE, out |-> NoRet,
                                     seen |-> <<>>]],
                        first |-> 0]]

\* Steam answers --------------------------------------------------------

\* ISteamUser.ResolveVanityURL
VanityResponses ==
    {[status |-> 200, success |-> 1, steamid |-> <<"4", "2">>],
     [status |-> 200, success |-> 42, steamid |-> None],
     [status |-> 500, success |-> 0, steamid |-> None]}

\* the summary Steam holds of a player
SummaryOf(id) ==
    [steamid |-> id,
     personaname |-> IF id = 1 THEN <<98>> ELSE <<97>>,
     personastate |-> IF id = 2 THEN 0 ELSE 1,
     gameextrainfo |-> FALSE,
     has_lastlogoff |-> TRUE,
     lastlogoff |-> IF id = 1 THEN 2 ELSE 1]

\* ISteamUser.GetPlayerSummaries: has_players is FALSE when the response
\* or players section is missing
SummariesResponses == [status : {200, 500}, has_players : BOOLEAN]

\* ISteamUser.GetFriendList
FriendListResponses ==
    {r \in [status : {200, 401}, has_friends : BOOLEAN, n : 0..MaxFriends] :
        (r.status # 200 \/ ~r.has_friends) => r.n = 0}

GameName(appid) == IF appid = 1 THEN "Portal" ELSE "Half-Life"

LibraryGames ==
    {[appid |-> a, name |-> GameName(a), playtime_forever |-> t] :
        a \in 1..MaxLibrary, t \in {0, 5}}

Libraries ==
    {l \in SeqsUpTo(LibraryGames, MaxLibrary) :
        \A i, j \in 1..Len(l) : l[i].appid = l[j].appid => i = j}

\* IPlayerService.GetOwnedGames of the player: game_count is the length of
\* games, or negative
OwnedGamesResponses ==
    {[status |-> 500, game_count |-> 0, games |-> <<>>],
     [status |-> 200, game_count |-> -1, games |-> <<>>]}
    \cup {[status |-> 200, game_count |-> Len(l), games |-> l] : l \in Libraries}

\* ISteamUserStats.GetPlayerAchievements for one game of the player
CmdPlayerResponses(appid) ==
    {[status |-> 400, has |-> FALSE, achievements |-> <<>>],
     [status |-> 200, has |-> FALSE, achievements |-> <<>>],
     [status |-> 200, has |-> TRUE, achievements |->
        <<[apiname |-> "ACH_A", achieved |-> 1, unlocktime |-> appid]>>]}

\* ISteamUserStats.GetGlobalAchievementPercentagesForApp for one game
CmdGlobalResponses(appid) ==
    {[status |-> 500, has |-> FALSE, achievements |-> <<>>],
     [status |-> 200, has |-> TRUE, achievements |->
        <<[name |-> "ACH_A", percent |-> appid]>>]}

\* ISteamUserStats.GetSchemaForGame: the entries of
\* game.availableGameStats.achievements; description is optional
SchemaResponses ==
    {[status |-> 500, achievements |-> <<>>],
     [status |-> 200, achievements |-> <<>>],
     [status |-> 200, achievements |->
        <<[name |-> "ACH_A", displayName |-> "First", icon |-> "a.jpg",
           has_description |-> TRUE, description |-> "Win once"]>>],
     [status |-> 200, achievements |->
        <<[name |-> "ACH_A", displayName |-> "First", icon |-> "a.jpg",
           has_description |-> FALSE, description |-> ""]>>]}

\* GetOwnedGames / GetRecentlyPlayedGames of a friend: has_count tells
\* whether game_count / total_count is present
FriendGamesResponses ==
    {[status |-> 500, has_count |-> FALSE, count |-> 0, games |-> <<>>],
     [status |-> 200, has_count |-> FALSE, count |-> 0, games |-> <<>>],
     [status |-> 200, has_count |-> TRUE, count |-> 0, games |-> <<>>],
     [status |-> 200, has_count |-> TRUE, count |-> 1, games |->
        <<[appid |-> 1, playtime_2weeks |-> 2]>>],
     [status |-> 200, has_count |-> TRUE, count |-> 2, games |->
        <<[appid |-> 2, playtime_2weeks |-> 1],
          [appid |-> 1, playtime_2weeks |-> 1]>>]}

-----------------------------------------------------------------------------
(* The handlers, cut where they await.  f is the state of the handler, a   *)
(* the arguments of the command                                            *)

\* a variant in which profile does not look at what get_steamid returned
after_get_steamid_unchecked(f, a) ==
    IF a.cmd = "profile"
    THEN await(call(f, "ISteamUser.GetPlayerSummaries"), "get_player_summary")
    ELSE IF a.cmd = "achievements"
    THEN await(call(f, "IPlayerService.GetOwnedGames"), "GetOwnedGames")
    ELSE await(call(f, "ISteamUser.GetPlayerSummaries"), "get_player_summary")

\* the code after `await get_steamid(...)`: profile line 118-120,
\* achievements lines 236-243, friends lines 488-493
after_get_steamid(f, a) ==
    IF a.cmd = "profile"
    THEN IF f.loc.steamid = None THEN return(f)
         ELSE await(call(f, "ISteamUser.GetPlayerSummaries"), "get_player_summary")
    ELSE IF a.cmd = "achievements"
    \* inputs is the tuple (steamid, max_count), never None
    THEN await(call(f, "IPlayerService.GetOwnedGames"), "GetOwnedGames")
    ELSE await(call(f, "ISteamUser.GetPlayerSummaries"), "get_player_summary")

\* get_steamid up to its await, lines 55-68
get_steamid(f, a) ==
    IF ~PROFILE_RX_match(a.vanity_or_steamid)
    THEN await(call(f, "ISteamUser.ResolveVanityURL"), "ResolveVanityURL")
    ELSE after_get_steamid([f EXCEPT !.loc.steamid = a.vanity_or_steamid], a)

\* a variant resolving the identity before it validates the other inputs
achievements_check_input_resolve_first(f, a) ==
    IF ~PROFILE_RX_match(a.vanity_or_steamid)
    THEN await(call(f, "ISteamUser.ResolveVanityURL"), "ResolveVanityURL")
    ELSE IF a.criteria = NoWord
    THEN return(send(f,
            "Please provide an achievement sorting criteria (available: %s)",
            <<ACHIEVEMENT_CRITERIA>>))
    ELSE IF a.criteria \notin Range(ACHIEVEMENT_CRITERIA)
    THEN return(send(f,
            "Unrecognized achievement sorting criteria: %s (available: %s)",
            <<a.criteria, ACHIEVEMENT_CRITERIA>>))
    ELSE IF int(a.max_count_str).raised
    THEN return(send(f, "Achievement count must be an integer (%s)",
                     <<a.max_count_str>>))
    ELSE after_get_steamid(
            [f EXCEPT !.loc.max_count = int(a.max_count_str).value,
                      !.loc.steamid = a.vanity_or_steamid], a)

\* achievements_check_input, lines 172-192
achievements_check_input(f, a) ==
    IF a.criteria = NoWord
    THEN return(send(f,
            "Please provide an achievement sorting criteria (available: %s)",
            <<ACHIEVEMENT_CRITERIA>>))
    ELSE IF a.criteria \notin Range(ACHIEVEMENT_CRITERIA)
    THEN return(send(f,
            "Unrecognized achievement sorting criteria: %s (available: %s)",
            <<a.criteria, ACHIEVEMENT_CRITERIA>>))
    ELSE IF int(a.max_count_str).raised
    THEN return(send(f, "Achievement count must be an integer (%s)",
                     <<a.max_count_str>>))
    ELSE get_steamid([f EXCEPT !.loc.max_count = int(a.max_count_str).value], a)

\* friends_check_input, lines 324-344
friends_check_input(f, a) ==
    IF a.subcommand = NoWord
    THEN return(send(f, "Please provide a friends subcommand (available: %s)",
                     <<FRIENDS_SUBCOMMANDS>>))
    ELSE IF a.subcommand \notin Range(FRIENDS_SUBCOMMANDS)
    \* line 334 joins ACHIEVEMENT_CRITERIA
    THEN return(send(f, "Unrecognized friends subcommand: %s (available: %s)",
                     <<a.subcommand, ACHIEVEMENT_CRITERIA>>))
    ELSE IF int(a.max_count_str).raised
    THEN return(send(f, "Achievement count must be an integer (%s)",
                     <<a.max_count_str>>))
    ELSE get_steamid([f EXCEPT !.loc.max_count = int(a.max_count_str).value], a)

\* the body of the command up to its first await
command_body(f, a) ==
    IF a.cmd = "profile" THEN get_steamid(f, a)
    ELSE IF a.cmd = "achievements" THEN achievements_check_input(f, a)
    ELSE friends_check_input(f, a)

\* a variant that sends the message and goes on with the command
has_vanity_name_no_return(f, a) ==
    IF a.vanity_or_steamid = None
    THEN command_body(
            send(f, "Please provide a Steam vanity URL or steamid", <<>>), a)
    ELSE command_body(f, a)

\* the wrapper of has_vanity_name, lines 45-51
has_vanity_name(f, a) ==
    IF a.vanity_or_steamid = None
    THEN return(send(f, "Please provide a Steam vanity URL or steamid", <<>>))
    ELSE command_body(f, a)

\* get_steamid after its await, lines 61-68
get_steamid_resume(f, a, vanity_response) ==
    IF vanity_response.status # 200 THEN throw(f)
    ELSE IF vanity_response.success # 1
    THEN after_get_steamid(
            [send(f, "Error resolving Steam vanity URL: %s",
                  <<a.vanity_or_steamid>>) EXCEPT !.loc.steamid = None], a)
    ELSE after_get_steamid(
            [f EXCEPT !.loc.steamid = vanity_response.steamid], a)

\* friends lines 509-526: the next slice of steamids, or the subcommand
friends_list_messages(f, a) ==
    LET rendered == friends_list(f.loc.max_count, f.loc.friendslist)
    IN  [send(f, "The Steam friends of player %s are (max. count %d):",
              <<f.loc.player.personaname, f.loc.max_count>>)
            \* one send for each friend rendered, lines 362-364
            EXCEPT !.sent = @ \o [n \in 1..Len(rendered) |->
                                    [text |-> "embed", args |-> <<rendered[n]>>]]]

\* a variant asking for the 100 steamids the API allows
friends_next_wide(f, a) ==
    IF f.loc.i < Len(f.loc.friends_steamids_list)
    THEN await(call([f EXCEPT !.loc.slices = Append(@,
                        SubSeq(f.loc.friends_steamids_list, f.loc.i + 1,
                               Min2(f.loc.i + 100,
                                    Len(f.loc.friends_steamids_list))))],
                    "ISteamUser.GetPlayerSummaries"), "GetPlayerSummaries")
    ELSE IF a.subcommand = FRIENDS_LIST THEN return(friends_list_messages(f, a))
    ELSE IF a.subcommand = FRIENDS_OWNED
    THEN start_pool(f, "owned", f.loc.friendslist)
    ELSE start_pool(f, "recent", f.loc.friendslist)

friends_next(f, a) ==
    IF f.loc.i < Len(f.loc.friends_steamids_list)
    \* friends_steamids_list[i:i+steamapi_sclices_size]
    THEN await(call([f EXCEPT !.loc.slices = Append(@,
                        SubSeq(f.loc.friends_steamids_list, f.loc.i + 1,
                               Min2(f.loc.i + steamapi_sclices_size,
                                    Len(f.loc.friends_steamids_list))))],
                    "ISteamUser.GetPlayerSummaries"), "GetPlayerSummaries")
    ELSE IF a.subcommand = FRIENDS_LIST THEN return(friends_list_messages(f, a))
    ELSE IF a.subcommand = FRIENDS_OWNED
    THEN start_pool(f, "owned", f.loc.friendslist)
    ELSE start_pool(f, "recent", f.loc.friendslist)

\* get_player_summary after its await (lines 75-80) and the code after
\* `await get_player_summary(...)`: profile 120-123, friends 493-498
get_player_summary_resume(f, a, playersummaries_response) ==
    IF playersummaries_response.status # 200 THEN throw(f)
    ELSE IF ~playersummaries_response.has_players
    THEN return(send(f, "Error fetching player summary", <<>>))
    ELSE LET player == SummaryOf(0)
         IN  IF a.cmd = "profile"
             THEN return(send([f EXCEPT !.loc.player = player],
                              "embed", <<player>>))
             ELSE await(call([f EXCEPT !.loc.player = player],
                             "ISteamUser.GetFriendList"), "GetFriendList")

\* friends lines 500-509
friends_resume_friendlist(f, a, friendlist_response) ==
    IF friendlist_response.status # 200 THEN throw(f)
    ELSE IF ~friendlist_response.has_friends
    THEN return(send(f, "Error fetching %s friendlist", <<f.loc.steamid>>))
    ELSE LET ids == [k \in 1..friendlist_response.n |-> k]
         IN  friends_next(
                send([f EXCEPT !.loc.friends_steamids_list = ids,
                               !.loc.friendslist = <<>>, !.loc.i = 0,
                               !.loc.slices = <<>>],
                     "Player %s (%s) has %d friends",
                     <<f.loc.player.personaname, f.loc.steamid, Len(ids)>>), a)

\* friends lines 513-516 and the next turn of the loop
friends_resume_summaries(f, a, playersummaries_response) ==
    IF playersummaries_response.status # 200 THEN throw(f)
    ELSE IF ~playersummaries_response.has_players
    THEN return(send(f, "Error fetching friends summaries", <<>>))
    ELSE LET ids == f.loc.friends_steamids_list
             last == Min2(f.loc.i + steamapi_sclices_size, Len(ids))
             players == [k \in 1..(last - f.loc.i) |-> SummaryOf(ids[f.loc.i + k])]
         IN  friends_next(
                [f EXCEPT !.loc.friendslist = @ \o players,
                          !.loc.i = @ + steamapi_sclices_size], a)

-----------------------------------------------------------------------------
(* The jobs of the pools *)

\* check_achievement_details, lines 195-201
check_achievement_details(achievement_details) ==
    [displayName |-> achievement_details.displayName,
     icon |-> achievement_details.icon,
     description |-> IF achievement_details.has_description
                     THEN achievement_details.description ELSE ""]

\* get_achievement_details_from_appid, lines 204-221; schema_game is what
\* GetSchemaForGame answers
get_achievement_details_from_appid(achievement, game_name, schema_game) ==
    IF schema_game.status # 200 THEN Raise("HTTPError")
    ELSE LET entries == schema_game.achievements
             names == {entries[i].name : i \in 1..Len(entries)}
             achievements_dict ==
                [n \in names |-> check_achievement_details(
                    entries[SetMax({i \in 1..Len(entries) : entries[i].name = n})])]
         IN  IF achievement.apiname \notin names THEN Raise("KeyError")
             ELSE Return(
                [appid |-> achievement.appid, game_name |-> game_name,
                 name |-> achievements_dict[achievement.apiname].displayName,
                 icon |-> achievements_dict[achievement.apiname].icon,
                 description |-> achievements_dict[achievement.apiname].description,
                 unlocktime |-> achievement.unlocktime,
                 percent |-> achievement.percent])

\* get_games_owned_by_player, lines 367-374
get_games_owned_by_player(player, owned_games_response) ==
    IF owned_games_response.status # 200 THEN Raise("HTTPError")
    ELSE IF ~owned_games_response.has_count \/ owned_games_response.count <= 0
    THEN Return([steamid |-> player.steamid, games |-> <<>>])
    ELSE Return([steamid |-> player.steamid,
                 games |-> owned_games_response.games])

\* get_games_recently_played_by_player, lines 425-431
get_games_recently_played_by_player(player, recent_games_response) ==
    IF recent_games_response.status # 200 THEN Raise("HTTPError")
    ELSE IF ~recent_games_response.has_count \/ recent_games_response.count <= 0
    THEN Return([steamid |-> player.steamid, games |-> <<>>])
    ELSE Return([steamid |-> player.steamid,
                 games |-> recent_games_response.games])

\* pool.map / pool.starmap once every job has run: the list of the
\* results, or the exception of a job
pool_map(slots) ==
    IF \E i \in 1..Len(slots) : slots[i].out.raised
    THEN Raise(slots[CHOOSE i \in 1..Len(slots) : slots[i].out.raised].out.value)
    ELSE Return([i \in 1..Len(slots) |-> slots[i].out.value])

RECURSIVE extend_all(_)
extend_all(lists) ==
    IF lists = <<>> THEN <<>> ELSE Head(lists) \o extend_all(Tail(lists))

\* get_player_achievements_with_percentages, lines 157-169
get_player_achievements_with_percentages(slots) ==
    IF pool_map(slots).raised THEN pool_map(slots)
    ELSE Return(extend_all(pool_map(slots).value))

\* appids_names, lines 264-267
appids_names(games, appid) ==
    games[SetMax({i \in 1..Len(games) : games[i].appid = appid})].name

-----------------------------------------------------------------------------
(* achievements after its awaits *)

\* a variant without the fallback to the whole library
select_played_appids_no_fallback(games) ==
    LET played == SelectSeq(games, LAMBDA g : g.playtime_forever > 0)
    IN  [i \in 1..Len(played) |-> played[i].appid]

\* played_appids, lines 252-260: the games that have been played, or every
\* owned game when none has
select_played_appids(games) ==
    LET played == SelectSeq(games, LAMBDA g : g.playtime_forever > 0)
        chosen == IF Len(played) # 0 THEN played ELSE games
    IN  [i \in 1..Len(chosen) |-> chosen[i].appid]

\* a variant giving up on every HTTP error of the call of line 271
achievements_resume_owned_any_error(f, a, owned_games_response, precheck) ==
    IF owned_games_response.status # 200 THEN throw(f)
    ELSE IF owned_games_response.game_count < 0
    THEN return(send(f, "Error fetching owned games for steamid: %s",
                     <<f.loc.steamid>>))
    ELSE IF owned_games_response.game_count = 0 THEN return(f)
    ELSE LET games == owned_games_response.games
             played_appids == select_played_appids(games)
             f1 == send([f EXCEPT !.loc.games = games,
                                  !.loc.played_appids = played_appids],
                    "Please wait while achievement data of %d games is being collected",
                    <<Len(played_appids)>>)
             \* appid=played_appids[0], line 272
             f2 == call([f1 EXCEPT !.loc.precheck = precheck,
                                   !.loc.precheck_appid = played_appids[1]],
                        "ISteamUserStats.GetPlayerAchievements")
         IN  IF played_appids = <<>> THEN throw(f1)
             ELSE IF precheck.status # 200
             THEN return(send(f2, "Error fetching achievement data: %s",
                              <<precheck.text>>))
             ELSE start_pool(f2, "achievements", played_appids)

\* lines 244-283; precheck is the answer to the GetPlayerAchievements call
\* of line 271 (the message of line 277 is written without its newline and
\* backquotes)
achievements_resume_owned(f, a, owned_games_response, precheck) ==
    IF owned_games_response.status # 200 THEN throw(f)
    ELSE IF owned_games_response.game_count < 0
    THEN return(send(f, "Error fetching owned games for steamid: %s",
                     <<f.loc.steamid>>))
    ELSE IF owned_games_response.game_count = 0 THEN return(f)
    ELSE LET games == owned_games_response.games
             played_appids == select_played_appids(games)
             f1 == send([f EXCEPT !.loc.games = games,
                                  !.loc.played_appids = played_appids],
                    "Please wait while achievement data of %d games is being collected",
                    <<Len(played_appids)>>)
             \* appid=played_appids[0], line 272
             f2 == call([f1 EXCEPT !.loc.precheck = precheck,
                                   !.loc.precheck_appid = played_appids[1]],
                        "ISteamUserStats.GetPlayerAchievements")
         IN  IF played_appids = <<>> THEN throw(f1)
             ELSE IF precheck.status = 403
             THEN return(send(f2, "Error fetching achievement data: %s",
                              <<precheck.text>>))
             ELSE start_pool(f2, "achievements", played_appids)

\* the fan-out that returned, kept for inspection
completed(f) ==
    [f EXCEPT !.loc.fanout =
        [kind |-> f.pool.kind, n |-> Len(f.pool.items),
         result |-> pool_map(f.pool.slots),
         first |-> f.pool.first,
         seen |-> [i \in 1..Len(f.pool.slots) |-> f.pool.slots[i].seen]]]

RECURSIVE send_embeds(_, _)
send_embeds(f, entries) ==
    IF entries = <<>> THEN f
    ELSE send(send_embeds(f, SubSeq(entries, 1, Len(entries) - 1)),
              "embed", <<entries[Len(entries)]>>)

\* lines 285-297: rank, then enrich the head
achievements_resume_fetch(f, a) ==
    LET fetched == get_player_achievements_with_percentages(f.pool.slots)
    IN  IF fetched.raised THEN throw(completed(f))
        ELSE LET sorted_global_achievements ==
                    rank_achievements(a.criteria, fetched.value)
                 head == HeadSlice(sorted_global_achievements, f.loc.max_count)
             IN  start_pool(
                    [completed(f) EXCEPT !.loc.global_achievements_percentages =
                                            fetched.value,
                                         !.loc.sorted_global_achievements =
                                            sorted_global_achievements],
                    "details",
                    [i \in 1..Len(head) |->
                        [achievement |-> head[i],
                         game_name |-> appids_names(f.loc.games, head[i].appid)]])

\* lines 299-321
achievements_resume_details(f, a) ==
    LET details == pool_map(f.pool.slots)
    IN  IF details.raised THEN throw(completed(f))
        ELSE return(send_embeds(
                send(completed(f), "The %d %s achievements owned by %s are:",
                     <<Len(details.value), a.criteria, f.loc.steamid>>),
                details.value))

friends_with_games_count(steamid_games_list) ==
    Len(SelectSeq(steamid_games_list, LAMBDA e : Len(e.games) # 0))

\* friends_owned, lines 390-422
friends_owned_resume(f, a) ==
    LET steamid_games_list == pool_map(f.pool.slots)
    IN  IF steamid_games_list.raised THEN throw(completed(f))
        ELSE return(send_embeds(
                send(completed(f), "List of the %d most owned games by %d friends of %s:",
                     <<f.loc.max_count,
                       friends_with_games_count(steamid_games_list.value),
                       f.loc.player.personaname>>),
                HeadSlice(rank_owned(steamid_games_list.value), f.loc.max_count)))

\* friends_recent, lines 447-481
friends_recent_resume(f, a) ==
    LET steamid_games_list == pool_map(f.pool.slots)
    IN  IF steamid_games_list.raised THEN throw(completed(f))
        ELSE return(send_embeds(
                send(completed(f),
                     "List of the %d most played games by %d friends of %s during the last 2 weeks:",
                     <<f.loc.max_count,
                       friends_with_games_count(steamid_games_list.value),
                       f.loc.player.personaname>>),
                HeadSlice(rank_recent(steamid_games_list.value), f.loc.max_count)))

-----------------------------------------------------------------------------
(* Spec: one command invocation *)

Invocations ==
    [cmd : {"profile"}, vanity_or_steamid : IdentityArgs,
     criteria : {NoWord}, subcommand : {NoWord}, max_count_str : {None}]
    \cup [cmd : {"achievements"}, vanity_or_steamid : IdentityArgs,
          criteria : CriteriaArgs, subcommand : {NoWord},
          max_count_str : MaxCountArgs]
    \cup [cmd : {"friends"}, vanity_or_steamid : IdentityArgs,
          criteria : {NoWord}, subcommand : SubcommandArgs,
          max_count_str : MaxCountArgs]

PrecheckResponses ==
    {[status |-> 200, text |-> ""], [status |-> 400, text |-> "Bad Request"],
     [status |-> 403, text |-> "Forbidden"],
     [status |-> 403, text |-> "Profile is not public"]}

Init == CmdIdle /\ FnIdle /\ LoopIdle

\* discord.py calls the command with the arguments of the user
Invoke ==
    /\ pc = "idle"
    /\ \E a \in Invocations :
        /\ args' = a
        /\ Become(has_vanity_name(Cur, a))
    /\ UNCHANGED <<fnVars, loopVars>>

ResolveVanityURLReturns ==
    /\ pc = "ResolveVanityURL"
    /\ \E vanity_response \in VanityResponses :
        Become(get_steamid_resume(Cur, args, vanity_response))
    /\ UNCHANGED <<args, fnVars, loopVars>>

GetPlayerSummaryReturns ==
    /\ pc = "get_player_summary"
    /\ \E playersummaries_response \in SummariesResponses :
        Become(get_player_summary_resume(Cur, args, playersummaries_response))
    /\ UNCHANGED <<args, fnVars, loopVars>>

GetFriendListReturns ==
    /\ pc = "GetFriendList"
    /\ \E friendlist_response \in FriendListResponses :
        Become(friends_resume_friendlist(Cur, args, friendlist_response))
    /\ UNCHANGED <<args, fnVars, loopVars>>

GetPlayerSummariesReturns ==
    /\ pc = "GetPlayerSummaries"
    /\ \E playersummaries_response \in SummariesResponses :
        Become(friends_resume_summaries(Cur, args, playersummaries_response))
    /\ UNCHANGED <<args, fnVars, loopVars>>

GetOwnedGamesReturns ==
    /\ pc = "GetOwnedGames"
    /\ \E owned_games_response \in OwnedGamesResponses,
          precheck \in PrecheckResponses :
        Become(achievements_resume_owned(Cur, args, owned_games_response, precheck))
    /\ UNCHANGED <<args, fnVars, loopVars>>

\* a job of the pool has run and its result is filed under the first free
\* position, as pool.imap_unordered would
job_done_unordered(f, i, out, seen) ==
    LET free == CHOOSE k \in 1..Len(f.pool.slots) :
                    /\ ~f.pool.slots[k].done
                    /\ \A j \in 1..(k - 1) : f.pool.slots[j].done
        F[n \in 0..Len(seen)] ==
            IF n = 0
            THEN [f EXCEPT !.pool.slots[free] =
                                [done |-> TRUE, out |-> out, seen |-> seen],
                           !.pool.first = IF @ = 0 THEN i ELSE @]
            ELSE call(F[n - 1], seen[n].method)
    IN  F[Len(seen)]

\* job i of the pool has run: its result is filed under i; seen lists the
\* calls the job made, each with the status of its answer
job_done(f, i, out, seen) ==
    LET F[n \in 0..Len(seen)] ==
            IF n = 0
            THEN [f EXCEPT !.pool.slots[i] =
                                [done |-> TRUE, out |-> out, seen |-> seen],
                           !.pool.first = IF @ = 0 THEN i ELSE @]
            ELSE call(F[n - 1], seen[n].method)
    IN  F[Len(seen)]

\* a call of a job and the status of its answer
Seen(method, response) == [method |-> method, status |-> response.status]

WorkerAchievements ==
    /\ pc = "run_in_executor" /\ pool.kind = "achievements"
    /\ \E i \in 1..Len(pool.items) :
        /\ ~pool.slots[i].done
        /\ \E presp \in CmdPlayerResponses(pool.items[i]),
              gresp \in CmdGlobalResponses(pool.items[i]) :
            Become(job_done(Cur, i,
                get_player_achievements_with_percentages_from_appid(
                    pool.items[i], presp, gresp),
                IF presp.status = 200 /\ presp.has
                THEN <<Seen("ISteamUserStats.GetPlayerAchievements", presp),
                       Seen("ISteamUserStats.GetGlobalAchievementPercentagesForApp",
                            gresp)>>
                ELSE <<Seen("ISteamUserStats.GetPlayerAchievements", presp)>>))
    /\ UNCHANGED <<args, fnVars, loopVars>>

WorkerDetails ==
    /\ pc = "run_in_executor" /\ pool.kind = "details"
    /\ \E i \in 1..Len(pool.items) :
        /\ ~pool.slots[i].done
        /\ \E schema_game \in SchemaResponses :
            Become(job_done(Cur, i,
                get_achievement_details_from_appid(
                    pool.items[i].achievement, pool.items[i].game_name,
                    schema_game),
                <<Seen("ISteamUserStats.GetSchemaForGame", schema_game)>>))
    /\ UNCHANGED <<args, fnVars, loopVars>>

WorkerOwned ==
    /\ pc = "run_in_executor" /\ pool.kind = "owned"
    /\ \E i \in 1..Len(pool.items) :
        /\ ~pool.slots[i].done
        /\ \E owned_games_response \in FriendGamesResponses :
            Become(job_done(Cur, i,
                get_games_owned_by_player(pool.items[i], owned_games_response),
                <<Seen("IPlayerService.GetOwnedGames", owned_games_response)>>))
    /\ UNCHANGED <<args, fnVars, loopVars>>

WorkerRecent ==
    /\ pc = "run_in_executor" /\ pool.kind = "recent"
    /\ \E i \in 1..Len(pool.items) :
        /\ ~pool.slots[i].done
        /\ \E recent_games_response \in FriendGamesResponses :
            Become(job_done(Cur, i,
                get_games_recently_played_by_player(
                    pool.items[i], recent_games_response),
                <<Seen("IPlayerService.GetRecentlyPlayedGames",
                       recent_games_response)>>))
    /\ UNCHANGED <<args, fnVars, loopVars>>

\* every job of the pool has run and run_in_executor hands the result, or
\* the exception, to the handler
RunInExecutorReturns ==
    /\ pc = "run_in_executor"
    /\ \A i \in 1..Len(pool.items) : pool.slots[i].done
    /\ Become(IF pool.kind = "achievements" THEN achievements_resume_fetch(Cur, args)
              ELSE IF pool.kind = "details" THEN achievements_resume_details(Cur, args)
              ELSE IF pool.kind = "owned" THEN friends_owned_resume(Cur, args)
              ELSE friends_recent_resume(Cur, args))
    /\ UNCHANGED <<args, fnVars, loopVars>>

Next ==
    \/ Invoke
    \/ ResolveVanityURLReturns
    \/ GetPlayerSummaryReturns
    \/ GetFriendListReturns
    \/ GetPlayerSummariesReturns
    \/ GetOwnedGamesReturns
    \/ WorkerAchievements
    \/ WorkerDetails
    \/ WorkerOwned
    \/ WorkerRecent
    \/ RunInExecutorReturns

Spec == Init /\ [][Next]_vars

TotalCalls == LET S[M \in SUBSET Methods] ==
                    IF M = {} THEN 0
                    ELSE LET m == CHOOSE x \in M : TRUE
                         IN  calls[m] + S[M \ {m}]
              IN  S[Methods]

-----------------------------------------------------------------------------
(* Properties of Spec *)

Invoked == args.cmd # ""

\* C1: every fan-out hands its caller one result slot per item, whatever
\* the outcome of the remote calls made for each item
C1_SlotPerItem ==
    loc.fanout.kind # "" =>
        /\ ~loc.fanout.result.raised
        /\ Len(loc.fanout.result.value) = loc.fanout.n

ResolutionFailed ==
    \E i \in 1..Len(sent) :
        sent[i].text = "Error resolving Steam vanity URL: %s"

\* C2: when the vanity lookup answers success != 1 the command sends the
\* one message naming the input and issues no remote call after the lookup
C2_StopsAtResolution ==
    ResolutionFailed =>
        /\ Len(sent) = 1
        /\ sent[1].args = <<args.vanity_or_steamid>>
        /\ TotalCalls = 1
        /\ calls["ISteamUser.ResolveVanityURL"] = 1
        /\ pc = "done"

Embeds == SelectSeq(sent, LAMBDA m : m.text = "embed")

\* C7: no enrichment call and no rendered entry of achievements goes
\* beyond max_count; when the command ends their number is min(max_count, n)
\* (none for a min below 1) and the entries are the first records of the
\* ranked list, in ranked order
C7_MaxCountBounds ==
    /\ (args.cmd = "achievements"
        /\ (pool.kind = "details" \/ loc.fanout.kind = "details"))
        => /\ \A k \in 1..calls["ISteamUserStats.GetSchemaForGame"] :
                k <= loc.max_count
           /\ \A k \in 1..Len(Embeds) : k <= loc.max_count
    /\ (args.cmd = "achievements" /\ pc = "done" /\ ~raised
        /\ loc.fanout.kind = "details")
        => LET ranked == loc.sorted_global_achievements
               first == SubSeq(ranked, 1, Min2(loc.max_count, Len(ranked)))
           IN  /\ calls["ISteamUserStats.GetSchemaForGame"] = Len(first)
               /\ Len(Embeds) = Len(first)
               /\ \A i \in 1..Len(first) :
                    /\ Embeds[i].args[1].appid = first[i].appid
                    /\ Embeds[i].args[1].percent = first[i].percent
                    /\ Embeds[i].args[1].unlocktime = first[i].unlocktime

\* C8: an achievements invocation with a policy outside {rarest, latest}
\* or a max count that is no integer ends with one error message, the
\* policy messages listing rarest and latest, and no remote call
C8_ValidationFirst ==
    (/\ args.cmd = "achievements"
     /\ \/ args.criteria \notin Range(ACHIEVEMENT_CRITERIA)
        \/ int(args.max_count_str).raised)
    => /\ pc = "done" /\ ~raised
       /\ TotalCalls = 0
       /\ Len(sent) = 1
       /\ args.vanity_or_steamid # None =>
            IF args.criteria = NoWord
            THEN /\ sent[1].text =
                    "Please provide an achievement sorting criteria (available: %s)"
                 /\ sent[1].args = <<<<"rarest", "latest">>>>
            ELSE IF args.criteria \notin {"rarest", "latest"}
            THEN /\ sent[1].text =
                    "Unrecognized achievement sorting criteria: %s (available: %s)"
                 /\ sent[1].args[1] = args.criteria
                 /\ sent[1].args[2] = <<"rarest", "latest">>
            ELSE /\ sent[1].text = "Achievement count must be an integer (%s)"
                 /\ sent[1].args = <<args.max_count_str>>

\* a vanity name with a valid policy and a max count that is no integer
C8_Witness ==
    /\ args.cmd = "achievements"
    /\ args.vanity_or_steamid = <<"b", "o", "b">>
    /\ args.criteria = "rarest"
    /\ args.max_count_str = <<"x">>
    /\ pc = "done"
    /\ Len(sent) = 1

\* C9: an invocation of profile, achievements or friends without the
\* identity sends the one message asking for it and issues no remote call
C9_MissingIdentity ==
    (Invoked /\ args.vanity_or_steamid = None)
    => /\ pc = "done" /\ ~raised
       /\ TotalCalls = 0
       /\ Len(sent) = 1
       /\ sent[1].text = "Please provide a Steam vanity URL or steamid"

\* friends invoked without identity, with other arguments given
C9_Witness ==
    /\ args.cmd = "friends"
    /\ args.vanity_or_steamid = None
    /\ args.subcommand = "owned"
    /\ Len(sent) = 1
    /\ pc = "done"

-----------------------------------------------------------------------------
(* The two fan-outs of achievements *)

EnrichmentReturned == loc.fanout.kind = "details" /\ ~loc.fanout.result.raised

\* C11: the i-th record get_achievements_details returns is the enrichment
\* of the i-th record of the head of the ranking: appid, percent and
\* unlocktime are those of that record and game_name is the name the
\* library gives for its appid, in whatever order the jobs finished
C11_IndexCorrespondence ==
    EnrichmentReturned =>
        LET head == HeadSlice(loc.sorted_global_achievements, loc.max_count)
            details == loc.fanout.result.value
        IN  /\ Len(details) = Len(head)
            /\ \A i \in 1..Len(details) :
                /\ details[i].appid = head[i].appid
                /\ details[i].percent = head[i].percent
                /\ details[i].unlocktime = head[i].unlocktime
                /\ \E k \in 1..Len(loc.games) :
                    /\ loc.games[k].appid = head[i].appid
                    /\ loc.games[k].name = details[i].game_name

\* two records of different games were enriched and the job of the second
\* finished first
C11_Witness ==
    /\ EnrichmentReturned
    /\ Len(loc.fanout.result.value) >= 2
    /\ loc.fanout.first = 2
    /\ loc.fanout.result.value[1].appid # loc.fanout.result.value[2].appid

\* the achievements fan-out is over and no job saw its
\* GetGlobalAchievementPercentagesForApp call fail
FetchedWithoutGlobalFailure ==
    /\ loc.fanout.kind = "achievements"
    /\ \A i \in 1..loc.fanout.n :
        \A k \in 1..Len(loc.fanout.seen[i]) :
            loc.fanout.seen[i][k].method =
                "ISteamUserStats.GetGlobalAchievementPercentagesForApp"
            => loc.fanout.seen[i][k].status = 200

\* the position of the game in the fan-out
ItemOf(appid) ==
    CHOOSE i \in 1..Len(loc.played_appids) : loc.played_appids[i] = appid

\* C12: a game whose GetPlayerAchievements call fails with an HTTP error
\* gives no record and takes nothing away from the others: the list handed
\* to the ranking holds, game after game, exactly the records the jobs of
\* the other games returned
C12_FailedItemIsolated ==
    FetchedWithoutGlobalFailure =>
        LET merged == loc.global_achievements_percentages
            results == loc.fanout.result
        IN  /\ ~results.raised
            /\ pc # "done"
            /\ \A i \in 1..loc.fanout.n :
                /\ loc.fanout.seen[i][1].status # 200 =>
                    \A p \in 1..Len(merged) :
                        merged[p].appid # loc.played_appids[i]
                /\ SelectSeq(merged,
                             LAMBDA r : r.appid = loc.played_appids[i])
                   = results.value[i]
            /\ \A p \in 1..Len(merged) : merged[p].appid \in Range(loc.played_appids)
            /\ \A p, q \in 1..Len(merged) :
                p < q => ItemOf(merged[p].appid) <= ItemOf(merged[q].appid)

\* the call of the first game failed and the second game gave its record
C12_Witness ==
    /\ FetchedWithoutGlobalFailure
    /\ loc.fanout.n = 2
    /\ loc.fanout.seen[1][1].status = 400
    /\ Len(loc.global_achievements_percentages) = 1
    /\ loc.global_achievements_percentages[1].appid = loc.played_appids[2]

-----------------------------------------------------------------------------
(* Identity resolution *)

\* the inputs other than the identity pass the validation of the command
InputsValid ==
    \/ args.cmd = "profile"
    \/ /\ args.cmd = "achievements"
       /\ args.criteria \in Range(ACHIEVEMENT_CRITERIA)
       /\ ~int(args.max_count_str).raised
    \/ /\ args.cmd = "friends"
       /\ args.subcommand \in Range(FRIENDS_SUBCOMMANDS)
       /\ ~int(args.max_count_str).raised

\* the invocation has called get_steamid
GetSteamidCalled == Invoked /\ args.vanity_or_steamid # None /\ InputsValid

OnlyDigits(s) == Len(s) >= 1 /\ \A i \in 1..Len(s) : s[i] \in Digits

\* C13: get_steamid gives an input made only of digits back unchanged
\* without a remote call, and issues exactly one ResolveVanityURL call for
\* any other input; no invocation issues more than one
C13_ResolvesOnce ==
    /\ calls["ISteamUser.ResolveVanityURL"] <= 1
    /\ GetSteamidCalled =>
        IF OnlyDigits(args.vanity_or_steamid)
        THEN /\ calls["ISteamUser.ResolveVanityURL"] = 0
             /\ loc.steamid = args.vanity_or_steamid
        ELSE calls["ISteamUser.ResolveVanityURL"] = 1

-----------------------------------------------------------------------------
(* The privacy pre-check of achievements, lines 269-278 *)

PrecheckMade == loc.precheck.status # 0

PrecheckErrors ==
    SelectSeq(sent, LAMBDA m : m.text = "Error fetching achievement data: %s")

\* the jobs of the achievements fan-out that have run
FetchJobsRun ==
    IF pool.kind = "achievements"
    THEN Cardinality({i \in 1..Len(pool.slots) : pool.slots[i].done})
    ELSE IF pool.kind = "details" \/ loc.fanout.kind # ""
    THEN Len(loc.played_appids)
    ELSE 0

\* C14: a pre-check answered with HTTP 403 ends achievements with exactly
\* one error message, which carries the text of the answer, and with no
\* fan-out fetch, no ranking and no enrichment call; the pre-check is one
\* call of the invocation; after any other answer the fan-out is started
C14_PrivacyAbort ==
    PrecheckMade =>
        /\ calls["ISteamUserStats.GetPlayerAchievements"] = 1 + FetchJobsRun
        /\ IF loc.precheck.status = 403
           THEN /\ pc = "done" /\ ~raised
                /\ Len(PrecheckErrors) = 1
                /\ sent[Len(sent)] = PrecheckErrors[1]
                /\ PrecheckErrors[1].args = <<loc.precheck.text>>
                /\ FetchJobsRun = 0
                /\ calls["ISteamUserStats.GetGlobalAchievementPercentagesForApp"] = 0
                /\ calls["ISteamUserStats.GetSchemaForGame"] = 0
                /\ pool = NoPool /\ loc.fanout.kind = ""
                /\ loc.sorted_global_achievements = <<>>
           ELSE /\ PrecheckErrors = <<>>
                /\ (pool.kind = "achievements" \/ loc.fanout.kind # "")

\* a library of two played games and a pre-check answered with 403
C14_Witness ==
    /\ loc.precheck = [status |-> 403, text |-> "Profile is not public"]
    /\ Len(loc.played_appids) = 2
    /\ pc = "done"

-----------------------------------------------------------------------------
(* The game count of achievements, lines 244-246 *)

OwnedGamesError ==
    \E i \in 1..Len(sent) :
        sent[i].text = "Error fetching owned games for steamid: %s"

\* C15: when GetOwnedGames reports a negative game count, achievements
\* sends the message 'Error fetching owned games for steamid: <id>' and no
\* other, and issues no remote call after GetOwnedGames
C15_NegativeCount ==
    OwnedGamesError =>
        /\ pc = "done" /\ ~raised
        /\ Len(sent) = 1
        /\ sent[1].args = <<loc.steamid>>
        /\ calls["IPlayerService.GetOwnedGames"] = 1
        /\ calls["ISteamUserStats.GetPlayerAchievements"] = 0
        /\ calls["ISteamUserStats.GetGlobalAchievementPercentagesForApp"] = 0
        /\ calls["ISteamUserStats.GetSchemaForGame"] = 0
        /\ pool = NoPool /\ loc.fanout.kind = ""

-----------------------------------------------------------------------------
(* profile, lines 114-123 *)

\* C16: a profile invocation whose remote calls return sends exactly one
\* message: the card when the identity was resolved and the summary
\* fetched, otherwise the one error that applies; no invocation of profile
\* sends a card and an error
C16_OneMessage ==
    args.cmd = "profile" =>
        /\ Len(sent) <= 1
        /\ (pc = "done" /\ ~raised) =>
            /\ Len(sent) = 1
            /\ sent[1].text =
                IF args.vanity_or_steamid = None
                THEN "Please provide a Steam vanity URL or steamid"
                ELSE IF loc.steamid = None
                THEN "Error resolving Steam vanity URL: %s"
                ELSE IF loc.player = <<>>
                THEN "Error fetching player summary"
                ELSE "embed"
            /\ sent[1].text = "embed" => sent[1].args = <<loc.player>>

\* a vanity name was resolved and the card sent
C16_Witness ==
    /\ args.cmd = "profile"
    /\ args.vanity_or_steamid = <<"b", "o", "b">>
    /\ pc = "done"
    /\ Len(sent) = 1
    /\ sent[1].text = "embed"

\* a vanity name was not resolved and the error sent
C16_WitnessError ==
    /\ args.cmd = "profile"
    /\ pc = "done"
    /\ Len(sent) = 1
    /\ sent[1].text = "Error resolving Steam vanity URL: %s"

-----------------------------------------------------------------------------
(* SpecChunks: friends with friend lists longer than one slice.  The jobs  *)
(* of the pools of friends_owned and friends_recent are the actions of     *)
(* Spec; here the handler is followed up to the start of its pool          *)

\* most full slices of a friend list
MaxSlices == 2

\* lengths of friend lists around the multiples of steamapi_sclices_size
LongFriendCounts ==
    {c * steamapi_sclices_size + d : c \in 0..MaxSlices, d \in {0, 1}}

LongFriendListResponses ==
    [status : {200}, has_friends : {TRUE}, n : LongFriendCounts]

FriendsInvocations ==
    [cmd : {"friends"}, vanity_or_steamid : {<<"7", "6">>, <<"b", "o", "b">>},
     criteria : {NoWord}, subcommand : Range(FRIENDS_SUBCOMMANDS),
     max_count_str : {<<"1", "0">>, <<"-", "1">>, <<"1">>}]

InvokeFriends ==
    /\ pc = "idle"
    /\ \E a \in FriendsInvocations :
        /\ args' = a
        /\ Become(has_vanity_name(Cur, a))
    /\ UNCHANGED <<fnVars, loopVars>>

GetLongFriendListReturns ==
    /\ pc = "GetFriendList"
    /\ \E friendlist_response \in LongFriendListResponses :
        Become(friends_resume_friendlist(Cur, args, friendlist_response))
    /\ UNCHANGED <<args, fnVars, loopVars>>

NextChunks ==
    \/ InvokeFriends
    \/ ResolveVanityURLReturns
    \/ GetPlayerSummaryReturns
    \/ GetLongFriendListReturns
    \/ GetPlayerSummariesReturns

SpecChunks == Init /\ [][NextChunks]_vars

FriendListFetched ==
    \E i \in 1..Len(sent) : sent[i].text = "Player %s (%s) has %d friends"

SummariesErrors ==
    SelectSeq(sent, LAMBDA m : m.text = "Error fetching friends summaries")

\* the handler has left the loop of lines 509-516 by its end
LoopOver ==
    /\ FriendListFetched
    /\ pc \in {"done", "run_in_executor"}
    /\ ~raised
    /\ SummariesErrors = <<>>

\* friends_list, friends_owned or friends_recent has been called
SubPipelineStarted ==
    \/ pool.kind \in {"owned", "recent"}
    \/ loc.fanout.kind \in {"owned", "recent"}
    \/ \E i \in 1..Len(sent) :
        sent[i].text = "The Steam friends of player %s are (max. count %d):"

\* C17: the summaries of n friends are asked for in ceil(n/50) calls of 1
\* to 50 steamids each, whose concatenation is the friend id list; a chunk
\* answered without players ends friends with 'Error fetching friends
\* summaries', no further chunk call and no sub-pipeline
C17_Chunking ==
    FriendListFetched =>
        LET ids == loc.friends_steamids_list
            asked == extend_all(loc.slices)
        IN  /\ \A k \in 1..Len(loc.slices) :
                Len(loc.slices[k]) >= 1 /\ Len(loc.slices[k]) <= 50
            /\ Len(asked) <= Len(ids)
            /\ asked = SubSeq(ids, 1, Len(asked))
            /\ calls["ISteamUser.GetPlayerSummaries"] = 1 + Len(loc.slices)
            /\ (LoopOver \/ SubPipelineStarted) =>
                /\ Len(loc.slices) = (Len(ids) + 49) \div 50
                /\ asked = ids
                /\ SummariesErrors = <<>>
            /\ SummariesErrors # <<>> =>
                /\ pc = "done" /\ ~raised
                /\ Len(SummariesErrors) = 1
                /\ sent[Len(sent)] = SummariesErrors[1]
                /\ pool = NoPool /\ loc.fanout.kind = ""
                /\ calls["IPlayerService.GetOwnedGames"] = 0
                /\ calls["IPlayerService.GetRecentlyPlayedGames"] = 0

\* 101 friends asked for in three calls, the last for one friend
C17_Witness ==
    /\ LoopOver
    /\ Len(loc.friends_steamids_list) = 101
    /\ Len(loc.slices) = 3
    /\ Len(loc.slices[2]) = 50
    /\ Len(loc.slices[3]) = 1

\* the second of three chunks was answered without players
C17_WitnessError ==
    /\ SummariesErrors # <<>>
    /\ Len(loc.friends_steamids_list) = 101
    /\ Len(loc.slices) = 2

-----------------------------------------------------------------------------
(* SpecLoop: the invocations discord.py runs as tasks of one event loop.   *)
(* What a handler does between two awaits runs on the thread of the loop   *)
(* and is one step; the data of the commands is left to Spec, and every    *)
(* call may have any of its outcomes                                       *)

\* ThreadPool(10)
ThreadPoolSize == 10

\* most jobs of a fan-out
MaxItems == 11
ItemCounts == {1, MaxItems}

Commands == {"check", "profile", "achievements", "friends"}

\* the calls awaited through call_steamapi_async, lines 35-39: they run on
\* a thread of a ThreadPoolExecutor
AsyncCalls ==
    {"GetServerInfo", "ResolveVanityURL", "get_player_summary",
     "GetFriendList", "GetPlayerSummaries", "GetOwnedGames"}

\* the call_steamapi of line 271, made by the handler itself
SyncCalls == {"precheck"}

after_identity(cmd) ==
    IF cmd = "achievements" THEN "GetOwnedGames" ELSE "get_player_summary"

\* what the handler of cmd does once the call `at` has returned ("" when
\* the command is invoked): the next call, or "done" when it returns or an
\* exception leaves it
following(cmd, at) ==
    {"done"} \cup
    IF at = ""
    THEN IF cmd = "check" THEN {"GetServerInfo"}
         ELSE {"ResolveVanityURL", after_identity(cmd)}
    ELSE IF at = "ResolveVanityURL" THEN {after_identity(cmd)}
    ELSE IF at = "get_player_summary" /\ cmd = "friends" THEN {"GetFriendList"}
    ELSE IF at \in {"GetFriendList", "GetPlayerSummaries"}
    THEN {"GetPlayerSummaries", "owned", "recent"}
    ELSE IF at = "GetOwnedGames" THEN {"precheck"}
    ELSE IF at = "precheck" THEN {"achievements"}
    ELSE IF at = "achievements" THEN {"details"}
    ELSE {}

\* the handler of h goes on to `next`
begin(h, cmd, next) ==
    IF next = "done"
    THEN /\ tasks' = [tasks EXCEPT ![h] = [cmd |-> cmd, at |-> "", state |-> "done"]]
         /\ running' = 0
         /\ UNCHANGED pools
    ELSE IF next \in SyncCalls
    \* the call runs on the thread of the event loop
    THEN /\ tasks' = [tasks EXCEPT ![h] = [cmd |-> cmd, at |-> next, state |-> "blocking"]]
         /\ running' = h
         /\ UNCHANGED pools
    ELSE IF next \in FanOuts
    \* run_in_executor: the job creates its ThreadPool and maps the items
    THEN /\ tasks' = [tasks EXCEPT ![h] = [cmd |-> cmd, at |-> next, state |-> "calling"]]
         /\ running' = 0
         /\ \E n \in ItemCounts :
                pools' = [pools EXCEPT ![h][next] =
                            [state |-> "mapping", n |-> n,
                             started |-> 0, finished |-> 0]]
    ELSE /\ tasks' = [tasks EXCEPT ![h] = [cmd |-> cmd, at |-> next, state |-> "calling"]]
         /\ running' = 0
         /\ UNCHANGED pools

\* a variant in which the pool hands a job to a worker whenever one waits
has_idle_worker_always(p) == TRUE

\* a worker of the pool is free to take a job
has_idle_worker(p) == p.started - p.finished < ThreadPoolSize

\* pool.map / pool.starmap returns
map_done(p) == p.state = "mapping" /\ p.finished = p.n

\* discord.py starts the handler of a command
LoopInvoke ==
    /\ running = 0
    /\ \E h \in Handlers, cmd \in Commands :
        /\ tasks[h].state = "idle"
        /\ \E next \in following(cmd, "") : begin(h, cmd, next)
    /\ UNCHANGED <<fnVars, cmdVars>>

\* a call made through call_steamapi_async returns on its thread
CallReturns ==
    /\ \E h \in Handlers :
        /\ tasks[h].state = "calling"
        /\ tasks[h].at \in AsyncCalls
        /\ tasks' = [tasks EXCEPT ![h].state = "ready"]
    /\ UNCHANGED <<running, pools, fnVars, cmdVars>>

\* the event loop resumes a handler whose await is over
Resume ==
    /\ running = 0
    /\ \E h \in Handlers :
        /\ tasks[h].state = "ready"
        /\ \E next \in following(tasks[h].cmd, tasks[h].at) :
            begin(h, tasks[h].cmd, next)
    /\ UNCHANGED <<fnVars, cmdVars>>

\* the call made on the thread of the event loop returns and the handler
\* goes on to its next await
SyncCallReturns ==
    /\ \E h \in Handlers :
        /\ tasks[h].state = "blocking"
        /\ running = h
        /\ \E next \in following(tasks[h].cmd, tasks[h].at) :
            begin(h, tasks[h].cmd, next)
    /\ UNCHANGED <<fnVars, cmdVars>>

\* a worker of a ThreadPool takes the next job
WorkerStarts ==
    /\ \E h \in Handlers, k \in FanOuts :
        /\ pools[h][k].state = "mapping"
        /\ pools[h][k].started < pools[h][k].n
        /\ has_idle_worker(pools[h][k])
        /\ pools' = [pools EXCEPT ![h][k].started = @ + 1]
    /\ UNCHANGED <<tasks, running, fnVars, cmdVars>>

\* the job of a worker has run
WorkerFinishes ==
    /\ \E h \in Handlers, k \in FanOuts :
        /\ pools[h][k].state = "mapping"
        /\ pools[h][k].finished < pools[h][k].started
        /\ pools' = [pools EXCEPT ![h][k].finished = @ + 1]
    /\ UNCHANGED <<tasks, running, fnVars, cmdVars>>

\* pool.map / pool.starmap returns and with it the job of run_in_executor.
\* No line closes, joins or terminates the ThreadPool: its workers go when
\* the garbage collector finalises the pool, which may be at this return
\* or later
MapReturns ==
    /\ \E h \in Handlers :
        /\ tasks[h].state = "calling"
        /\ tasks[h].at \in FanOuts
        /\ map_done(pools[h][tasks[h].at])
        /\ tasks' = [tasks EXCEPT ![h].state = "ready"]
        /\ \E after \in {"idle", "terminated"} :
            pools' = [pools EXCEPT ![h][tasks[h].at].state = after]
    /\ UNCHANGED <<running, fnVars, cmdVars>>

\* the garbage collector finalises a ThreadPool
Finalize ==
    /\ \E h \in Handlers, k \in FanOuts :
        /\ pools[h][k].state = "idle"
        /\ pools' = [pools EXCEPT ![h][k].state = "terminated"]
    /\ UNCHANGED <<tasks, running, fnVars, cmdVars>>

NextLoop ==
    \/ LoopInvoke
    \/ CallReturns
    \/ Resume
    \/ SyncCallReturns
    \/ WorkerStarts
    \/ WorkerFinishes
    \/ MapReturns
    \/ Finalize

SpecLoop == Init /\ [][NextLoop]_vars

\* SpecPool: one invocation, every other having returned
InitPool ==
    /\ CmdIdle /\ FnIdle
    /\ tasks = [h \in Handlers |->
                    IF h = 1 THEN NoTask ELSE [NoTask EXCEPT !.state = "done"]]
    /\ running = 0
    /\ pools = [h \in Handlers |-> [k \in FanOuts |-> NoThreadPool]]

SpecPool == InitPool /\ [][NextLoop]_vars

\* a remote call of the invocation is in flight
InFlight(h) == tasks[h].state \in {"calling", "blocking"}

\* the handler of the invocation has a step to take
Resumable(h) == tasks[h].state \in {"idle", "ready"}

\* C18: every remote call of a handler is a suspension point: while a call
\* of one invocation is in flight, the pre-check of achievements included,
\* the event loop is free to run the handler of another invocation
C18_CallsSuspend ==
    \A h, g \in Handlers :
        (h # g /\ InFlight(h) /\ Resumable(g)) => running = 0

\* C19: a fan-out has at most 10 jobs in flight, and it is a barrier: the
\* handler is resumed only when every job has run, so no job of the
\* enrichment is started while a job of the fetch of the same invocation is
\* in flight
C19_PoolBarrier ==
    \A h \in Handlers :
        /\ \A k \in FanOuts :
            /\ pools[h][k].started - pools[h][k].finished <= 10
            /\ pools[h][k].state \in {"idle", "terminated"}
                => pools[h][k].finished = pools[h][k].n
            /\ (tasks[h].at = k /\ tasks[h].state = "ready")
                => pools[h][k].finished = pools[h][k].n
        /\ pools[h]["details"].state # "none" =>
            /\ pools[h]["achievements"].state \in {"idle", "terminated"}
            /\ pools[h]["achievements"].finished = pools[h]["achievements"].n

\* eleven games: ten jobs in flight and the eleventh waiting for a worker
C19_Witness ==
    /\ pools[1]["achievements"].state = "mapping"
    /\ pools[1]["achievements"].n = 11
    /\ pools[1]["achievements"].started = 10
    /\ pools[1]["achievements"].finished = 0

\* the enrichment under way after a fetch of eleven games
C19_WitnessBarrier ==
    /\ pools[1]["achievements"].n = 11
    /\ pools[1]["details"].started > pools[1]["details"].finished

\* C20: the pool of a fan-out is torn down by the time the fan-out returns:
\* no ThreadPool whose pool.map / pool.starmap has returned is left with
\* its workers
C20_PoolsTornDown ==
    \A h \in Handlers, k \in FanOuts : pools[h][k].state # "idle"

-----------------------------------------------------------------------------
(* The games achievements looks at, lines 247-272 *)

\* line 261 has been reached: played_appids is chosen
SelectionAnnounced ==
    \E i \in 1..Len(sent) :
        sent[i].text =
            "Please wait while achievement data of %d games is being collected"

\* the appids of the games of the library at the positions Q, in the order
\* of the library
AppidsAt(games, Q) ==
    [k \in 1..Cardinality(Q) |->
        games[CHOOSE i \in Q : Cardinality({j \in Q : j <= i}) = k].appid]

\* what the library says the items are: the games with playtime_forever
\* above 0, or all of them when there is none
ExpectedItems(games) ==
    LET P == {i \in 1..Len(games) : games[i].playtime_forever > 0}
    IN  AppidsAt(games, IF P # {} THEN P ELSE 1..Len(games))

\* C21: with a positive game count, the items of the pre-check and of the
\* fan-out are the owned games with playtime above 0, in library order, or
\* the whole library when no game has playtime; the list is not empty when
\* the pre-check reads its first element
C21_PlayedSubset ==
    (args.cmd = "achievements" /\ SelectionAnnounced) =>
        LET expected == ExpectedItems(loc.games)
        IN  /\ Len(loc.games) > 0
            /\ loc.played_appids = expected
            /\ expected # <<>>
            /\ PrecheckMade
            /\ loc.precheck_appid = expected[1]
            /\ pool.kind = "achievements" => pool.items = expected
            /\ loc.fanout.kind = "achievements" => loc.fanout.n = Len(expected)
            /\ \A i \in 1..Len(sent) :
                sent[i].text =
                    "Please wait while achievement data of %d games is being collected"
                => sent[i].args = <<Len(expected)>>

\* an unplayed game followed by a played one: the fan-out runs over the
\* second game only
C21_Witness ==
    /\ Len(loc.games) = 2
    /\ loc.games[1].playtime_forever = 0
    /\ loc.games[2].playtime_forever > 0
    /\ pool.kind = "achievements"
    /\ pool.items = <<loc.games[2].appid>>
    /\ loc.precheck_appid = loc.games[2].appid

\* no game has playtime: the fan-out runs over the whole library
C21_WitnessFallback ==
    /\ Len(loc.games) = 2
    /\ \A i \in 1..2 : loc.games[i].playtime_forever = 0
    /\ pool.kind = "achievements"
    /\ pool.items = <<loc.games[1].appid, loc.games[2].appid>>

-----------------------------------------------------------------------------
(* SpecTally: the per-friend jobs of friends_owned and friends_recent and   *)
(* the fold of their results, as a function of what Steam answers for each *)
(* friend                                                                  *)

\* GetOwnedGames / GetRecentlyPlayedGames of a friend: an HTTP error, an
\* answer without count, a count of 0, or a list of games with its length
TallyResponses ==
    {[status |-> 500, has_count |-> FALSE, count |-> 0, games |-> <<>>],
     [status |-> 200, has_count |-> FALSE, count |-> 0, games |-> <<>>],
     [status |-> 200, has_count |-> TRUE, count |-> 0, games |-> <<>>]}
    \cup {[status |-> 200, has_count |-> TRUE, count |-> Len(l), games |-> l] :
            l \in GameLists \ {<<>>}}

\* most friends of a tally
MaxTallyFriends == 3

\* friend i of playerslist
TallyPlayer(i) == [steamid |-> i]

InitTally ==
    /\ fn = ""
    /\ arg \in [responses : SeqsUpTo(TallyResponses, MaxTallyFriends)]
    /\ ret = NoRet
    /\ CmdIdle
    /\ LoopIdle

\* get_games_owned_by_players, lines 377-381: one job per player
get_games_owned_by_players(responses) ==
    pool_map([i \in 1..Len(responses) |->
                [out |-> get_games_owned_by_player(TallyPlayer(i), responses[i])]])

\* get_games_recently_played_by_players, lines 434-438
get_games_recently_played_by_players(responses) ==
    pool_map([i \in 1..Len(responses) |->
                [out |-> get_games_recently_played_by_player(
                            TallyPlayer(i), responses[i])]])

\* friends_owned up to line 408
TallyOwned ==
    /\ fn = ""
    /\ fn' = "friends_owned"
    /\ LET steamid_games_list == get_games_owned_by_players(arg.responses)
       IN  ret' = IF steamid_games_list.raised THEN steamid_games_list
                  ELSE Return(rank_owned(steamid_games_list.value))
    /\ UNCHANGED <<arg, cmdVars, loopVars>>

\* friends_recent up to line 466
TallyRecent ==
    /\ fn = ""
    /\ fn' = "friends_recent"
    /\ LET steamid_games_list ==
                get_games_recently_played_by_players(arg.responses)
       IN  ret' = IF steamid_games_list.raised THEN steamid_games_list
                  ELSE Return(rank_recent(steamid_games_list.value))
    /\ UNCHANGED <<arg, cmdVars, loopVars>>

NextTally == TallyOwned \/ TallyRecent

SpecTally == InitTally /\ [][NextTally]_vars

\* friend i has a list, and the list has the item
Lists(i, appid) ==
    LET r == arg.responses[i]
    IN  /\ r.status = 200 /\ r.has_count /\ r.count > 0
        /\ \E k \in 1..Len(r.games) : r.games[k].appid = appid

ListedBy(appid) == {i \in 1..Len(arg.responses) : Lists(i, appid)}

\* the two-week playtime friend i reports for the item
PlaytimeOf(i, appid) ==
    LET g == arg.responses[i].games
    IN  g[CHOOSE k \in 1..Len(g) : g[k].appid = appid].playtime_2weeks

SumOver(S, v(_)) ==
    LET F[T \in SUBSET S] ==
            IF T = {} THEN 0
            ELSE LET x == CHOOSE y \in T : TRUE IN v(x) + F[T \ {x}]
    IN  F[S]

\* the tally has one entry for each item some friend lists, and no other
TallyItems(tally) ==
    /\ {tally[k].game.appid : k \in 1..Len(tally)}
            = {a \in TallyAppids : ListedBy(a) # {}}
    /\ \A k, l \in 1..Len(tally) :
            tally[k].game.appid = tally[l].game.appid => k = l

\* C22: the tallies are exact.  In friends_owned the owner count of an item
\* is the number of friends whose list has it and the length of its owner
\* list, which holds exactly those friends; in friends_recent the total is
\* the sum of their two-week playtimes and the player count their number;
\* an item is in a tally exactly when a friend lists it, and a friend with
\* an empty or unavailable list is in no entry
C22_ExactTallies ==
    (fn \in {"friends_owned", "friends_recent"} /\ ~ret.raised) =>
        /\ TallyItems(ret.value)
        /\ \A k \in 1..Len(ret.value) :
            LET e == ret.value[k]
                friends == ListedBy(e.game.appid)
                PlaytimeOfFriend(i) == PlaytimeOf(i, e.game.appid)
            IN  /\ e.count = Cardinality(friends)
                /\ Len(e.steamids) = e.count
                /\ Range(e.steamids) = {TallyPlayer(i).steamid : i \in friends}
                /\ fn = "friends_recent" =>
                        e.playtime = SumOver(friends, PlaytimeOfFriend)

\* two friends played item 1 for 2 and 1 minutes, and a friend with a count
\* of 0 is in no entry
C22_Witness ==
    /\ fn = "friends_recent" /\ ~ret.raised
    /\ \E i, j, u \in 1..Len(arg.responses) :
        /\ i # j
        /\ Lists(i, 1) /\ PlaytimeOf(i, 1) = 2
        /\ Lists(j, 1) /\ PlaytimeOf(j, 1) = 1
        /\ arg.responses[u].has_count /\ arg.responses[u].count = 0
    /\ \E k \in 1..Len(ret.value) :
        /\ ret.value[k].game.appid = 1
        /\ ret.value[k].playtime = 3
        /\ ret.value[k].count = 2

\* two friends own item 1 and the answer for the third has no count
C22_WitnessOwned ==
    /\ fn = "friends_owned" /\ ~ret.raised
    /\ Len(arg.responses) = 3
    /\ Lists(1, 1) /\ Lists(2, 1) /\ Lists(2, 2)
    /\ ~arg.responses[3].has_count
    /\ \E k \in 1..Len(ret.value) :
        /\ ret.value[k].game.appid = 1
        /\ ret.value[k].steamids = <<1, 2>>

-----------------------------------------------------------------------------
(* The enrichment jobs of achievements, lines 195-221 *)

\* the jobs of the enrichment fan-out that have run
EnrichmentJobsRun ==
    IF pool.kind = "details"
    THEN {i \in 1..Len(pool.slots) : pool.slots[i].done}
    ELSE {}

\* C23: enrichment never fails a record: for every head record the job
\* returns an enriched record with the display name and the icon the schema
\* has for the internal name of the record, and with the description of the
\* schema, or the empty string when the schema entry has none
C23_EnrichmentNeverFails ==
    \A i \in EnrichmentJobsRun :
        LET record == pool.items[i].achievement
            out == pool.slots[i].out
        IN  /\ ~out.raised
            /\ out.value.appid = record.appid
            /\ out.value.unlocktime = record.unlocktime
            /\ out.value.percent = record.percent
            /\ \E schema_game \in SchemaResponses :
                \E k \in 1..Len(schema_game.achievements) :
                    LET entry == schema_game.achievements[k]
                    IN  /\ entry.name = record.apiname
                        /\ out.value.name = entry.displayName
                        /\ out.value.icon = entry.icon
                        /\ out.value.description =
                                IF entry.has_description
                                THEN entry.description ELSE ""

-----------------------------------------------------------------------------
(* The subcommand of friends, lines 324-336 *)

\* friends was given an identity and a subcommand that is not one of
\* FRIENDS_SUBCOMMANDS
UnknownSubcommand ==
    /\ args.cmd = "friends"
    /\ args.vanity_or_steamid # None
    /\ args.subcommand # NoWord
    /\ args.subcommand \notin Range(FRIENDS_SUBCOMMANDS)

\* C24: friends with a subcommand other than list, owned, recent sends one
\* error message, which lists the subcommands list, owned, recent, and makes
\* no remote call
C24_UnknownSubcommand ==
    UnknownSubcommand =>
        /\ pc = "done" /\ ~raised
        /\ Len(sent) = 1
        /\ sent[1].args = <<args.subcommand, <<"list", "owned", "recent">>>>
        /\ TotalCalls = 0

-----------------------------------------------------------------------------
(* The end of achievements *)

\* no remote call of the invocation has failed: no exception has left the
\* handler, the call of line 271 was answered with 200 if it was made, and
\* so was every call of the jobs
AllCallsSucceeded ==
    /\ ~raised
    /\ loc.precheck.status \in {0, 200}
    /\ \A i \in 1..Len(pool.slots) : \A k \in 1..Len(pool.slots[i].seen) :
            pool.slots[i].seen[k].status = 200
    /\ \A i \in 1..Len(loc.fanout.seen) : \A k \in 1..Len(loc.fanout.seen[i]) :
            loc.fanout.seen[i][k].status = 200

\* C25: an achievements invocation that ends while all its remote calls
\* succeeded has sent a message to the user, also when the library of the
\* player is empty
C25_AlwaysAnswers ==
    (args.cmd = "achievements" /\ pc = "done" /\ AllCallsSucceeded) =>
        Len(sent) >= 1

=============================================================================
